---- MODULE Spec2Model ----
(***************************************************************************)
(* Model of src/src/paged_client.rs: the two hand-written poll_next state  *)
(* machines, VaultStream (token cursor) and TransactionStream (timestamp   *)
(* cursor), the futures they keep in `fut`, and the collaborators they     *)
(* call (the parameter builders and Client::vaults / Client::transactions).*)
(*                                                                         *)
(* Time is counted in milliseconds.  Option<T> is a record [some, v].      *)
(* Besides the fields of the two structs the model keeps, per stream, a    *)
(* log of the requests pushed into `fut`, a log of the Ready values        *)
(* poll_next returned, the number of calls made to the page fetcher, and   *)
(* the value the last poll_next call returned.                             *)
(***************************************************************************)
EXTENDS Integers, Sequences, FiniteSets

VARIABLES
  driven,      \* which streams the caller constructed and advances
  vault,       \* VaultStream: [batch, after, init, fut]
  vRejected,   \* the cursors PagingVaultRequestBuilder::build rejects
  vreqs,       \* VaultStream: parameters of every fetch pushed into fut
  vout,        \* VaultStream: every Ready value poll_next returned
  vcalls,      \* VaultStream: number of Client::vaults invocations
  vret,        \* VaultStream: what the last poll_next call returned
  txs,         \* TransactionStream: [batch, init, vault_id, after, is_source, fut]
  tRejected,   \* the cursors TransactionListBuilder::build rejects
  treqs,       \* TransactionStream: parameters of every fetch pushed into fut
  tout,        \* TransactionStream: every Ready value poll_next returned
  tcalls,      \* TransactionStream: number of Client::transactions invocations
  tret         \* TransactionStream: what the last poll_next call returned

vstate == <<vault, vRejected, vreqs, vout, vcalls, vret>>
tstate == <<txs, tRejected, treqs, tout, tcalls, tret>>
vars == <<driven, vault, vRejected, vreqs, vout, vcalls, vret,
          txs, tRejected, treqs, tout, tcalls, tret>>

----------------------------------------------------------------------------
(* Bounds of the model *)

\* fetches one stream instance may push over its lifetime
MaxFetches == 3
\* Ready values one stream instance may return over its lifetime
MaxReturns == 4
\* largest batch size given to a constructor
MaxBatch == 2
\* largest created_at a transaction carries
MaxTime == 3
\* largest `after` the caller gives to a transaction stream constructor
MaxInitAfter == 1

Batches == 1..MaxBatch
Times == 0..MaxTime
VaultIds == {0, 1}
\* the next-page tokens the server hands out
Tokens == {"A", "B"}

----------------------------------------------------------------------------
(* Option<T> *)

None == [some |-> FALSE, v |-> ""]
Some(x) == [some |-> TRUE, v |-> x]
NoEpoch == [some |-> FALSE, v |-> 0]

Last(s) == s[Len(s)]

\* FuturesUnordered::poll_next hands out the output of a completed future
\* and drops that future
FutTake_Keep(fut, f) == fut
FutTake(fut, f) == fut \ {f}

----------------------------------------------------------------------------
(* Collaborators of VaultStream *)

\* Option<&String>::unwrap_or(&String::new())
UnwrapOrEmpty(o) == IF o.some THEN o.v ELSE ""

VaultCursors == {""} \cup Tokens

\* what a builder's validation may reject: nothing, or one cursor value (a
\* stream that meets a rejected cursor never moves to another cursor, so one
\* run never observes a second rejected value)
Rejections(cursors) == {{}} \cup {{c} : c \in cursors}

\* PagingVaultRequestBuilder::new().limit(limit).after(after).build(): a pure
\* function of its inputs that either validates them or returns a ParamError
PagingVaultRequestBuild(limit, after) ==
  IF after \in vRejected
  THEN [ok |-> FALSE, params |-> [limit |-> 0, after |-> ""]]
  ELSE [ok |-> TRUE, params |-> [limit |-> limit, after |-> after]]

\* Client::vaults(params): what one round trip may answer, a transport error
\* or a page of accounts with the server's optional next token
VaultResponses(params) ==
  {[ok |-> FALSE, after |-> None]}
    \cup {[ok |-> TRUE, after |-> a] : a \in {None} \cup {Some(t) : t \in Tokens}}

\* `async move { client.vaults(params).await }.boxed()`: a future that has not
\* been polled yet; `id` is its position among the fetches of the instance
NewVaultFuture(id, params) ==
  [id |-> id, params |-> params, st |-> "new", res |-> [ok |-> FALSE, after |-> None]]

----------------------------------------------------------------------------
(* VaultStream *)

VaultStreamNew_InitTrue(batch) ==
  [batch |-> batch, init |-> TRUE, after |-> None, fut |-> {}]
VaultStreamNew(batch) ==
  [batch |-> batch, init |-> FALSE, after |-> None, fut |-> {}]

VaultBuildParams_NoCursor(s) == PagingVaultRequestBuild(s.batch, "")
VaultBuildParams(s) == PagingVaultRequestBuild(s.batch, UnwrapOrEmpty(s.after))

\* the values poll_next returns
VaultPoll(tag, why, id, after, woke) ==
  [tag |-> tag, why |-> why, id |-> id, after |-> after, woke |-> woke]
VaultNotPolled == VaultPoll("NotPolled", "", 0, None, FALSE)
VaultPending_NoWake == VaultPoll("Pending", "", 0, None, FALSE)
VaultPending == VaultPoll("Pending", "", 0, None, TRUE)
\* an entry of vout: a Ready value and the number of fetches pushed so far
VaultLogged(r) ==
  [tag |-> r.tag, why |-> r.why, id |-> r.id, after |-> r.after, nreq |-> Len(vreqs)]

\* poll_next returns a Ready value and pushes nothing
VaultReturnReady(s, r) ==
  /\ vault' = s
  /\ vret' = r
  /\ vout' = Append(vout, VaultLogged(r))
  /\ UNCHANGED vreqs

\* build_params failed: the error is returned in-band
VaultBuildFailed_Push(s) ==
  /\ Len(vreqs) < MaxFetches
  /\ vault' = [s EXCEPT !.fut = @ \cup
                 {NewVaultFuture(Len(vreqs) + 1, [limit |-> s.batch, after |-> ""])}]
  /\ vreqs' = Append(vreqs, [limit |-> s.batch, after |-> ""])
  /\ vret' = VaultPending
  /\ UNCHANGED vout
VaultBuildFailed_Reset(s) ==
  VaultReturnReady([s EXCEPT !.after = None], VaultPoll("Err", "param", 0, None, FALSE))
VaultBuildFailed(s) ==
  VaultReturnReady(s, VaultPoll("Err", "param", 0, None, FALSE))

\* build the parameters from the cursor, push the fetch, wake, return Pending
VaultStartFetch(s) ==
  LET b == VaultBuildParams(s) IN
  /\ UNCHANGED vcalls
  /\ IF b.ok
     THEN /\ Len(vreqs) < MaxFetches
          /\ vault' = [s EXCEPT !.fut = @ \cup {NewVaultFuture(Len(vreqs) + 1, b.params)}]
          /\ vreqs' = Append(vreqs, b.params)
          /\ vret' = VaultPending
          /\ UNCHANGED vout
     ELSE VaultBuildFailed(s)

\* the cursor after an Ok page: `self.after.clone_from(&va.paging.after)`
VaultNextAfter_IfSome(old, page) == IF page.after.some THEN page.after ELSE old
VaultNextAfter(old, page) == page.after

\* self.fut.poll_next_unpin(cx) = Ready(Some(result)): a fetch that has
\* resolved, or one polled for the first time that resolves at once
VaultPollReady ==
  \E f \in vault.fut :
    \E r \in (IF f.st = "done" THEN {f.res}
              ELSE IF f.st = "new" THEN VaultResponses(f.params) ELSE {}) :
      LET rest == FutTake(vault.fut, f) IN
      /\ vcalls' = IF f.st = "new" THEN vcalls + 1 ELSE vcalls
      /\ IF r.ok
         THEN VaultReturnReady(
                [vault EXCEPT !.fut = rest, !.after = VaultNextAfter(@, r)],
                VaultPoll("Ok", "", f.id, r.after, FALSE))
         ELSE VaultReturnReady(
                [vault EXCEPT !.fut = rest],
                VaultPoll("Err", "fetch", f.id, None, FALSE))

\* self.fut.poll_next_unpin(cx) = Pending: no fetch has resolved; a future
\* polled for the first time calls Client::vaults
VaultPollPending ==
  /\ vault.fut # {}
  /\ \A f \in vault.fut : f.st # "done"
  /\ vault' = [vault EXCEPT !.fut =
                 {[f EXCEPT !.st = "running"] : f \in vault.fut}]
  /\ vcalls' = vcalls + Cardinality({f \in vault.fut : f.st = "new"})
  /\ vret' = VaultPending
  /\ UNCHANGED <<vreqs, vout>>

\* control reaches the code after the match: poll_next_unpin returned
\* Ready(None), which FuturesUnordered does exactly when it is empty
VaultFallsThrough_Always(fut) == TRUE
VaultFallsThrough(fut) == fut = {}

\* `self.after.is_none()`
VaultExhausted_Never(after) == FALSE
VaultExhausted(after) == ~after.some

\* poll_next takes `self: Pin<&mut Self>`: it writes the fields of its own
\* instance and nothing else
VaultOthers_SharedInit ==
  /\ UNCHANGED <<driven, vRejected, tRejected, treqs, tout, tcalls, tret>>
  /\ txs' = [txs EXCEPT !.init = TRUE]
VaultOthers == UNCHANGED <<driven, vRejected, tstate>>

VaultPollNext ==
  /\ "vault" \in driven
  /\ Len(vout) < MaxReturns
  /\ VaultOthers
  /\ IF ~vault.init
     THEN VaultStartFetch([vault EXCEPT !.init = TRUE])
     ELSE \/ VaultPollReady
          \/ VaultPollPending
          \/ /\ VaultFallsThrough(vault.fut)
             /\ IF VaultExhausted(vault.after)
                THEN /\ VaultReturnReady(vault, VaultPoll("None", "", 0, None, FALSE))
                     /\ UNCHANGED vcalls
                ELSE VaultStartFetch(vault)

\* the round trip of a fetch that was started ends with some response
VaultFetchResolve ==
  /\ \E f \in vault.fut :
       /\ f.st = "running"
       /\ \E r \in VaultResponses(f.params) :
            vault' = [vault EXCEPT !.fut =
                        (@ \ {f}) \cup {[f EXCEPT !.st = "done", !.res = r]}]
  /\ UNCHANGED <<driven, vRejected, vreqs, vout, vcalls, vret, tstate>>

----------------------------------------------------------------------------
(* Collaborators of TransactionStream *)

\* the cursors a transaction stream can hold: an instant, or one millisecond
\* past the latest one
TxCursors == 0..(MaxTime + 1)

\* TransactionListBuilder::new().limit(..).sort_asc().order_created_at()
\*   .after(..).source_id(..) | .destination_id(..) .build(): a pure function
\* of its inputs that either validates them or returns a ParamError
TransactionListBuild(limit, after, side, id) ==
  IF after \in tRejected
  THEN [ok |-> FALSE,
        params |-> [limit |-> 0, sort |-> "", order_by |-> "", after |-> 0,
                    side |-> "", id |-> 0]]
  ELSE [ok |-> TRUE,
        params |-> [limit |-> limit, sort |-> "ASC", order_by |-> "createdAt",
                    after |-> after, side |-> side, id |-> id]]

\* the created_at values of the pages of at most n transactions, oldest
\* first, none older than `from`
RECURSIVE TxPages(_, _)
TxPages(from, n) ==
  IF n = 0 THEN {<<>>}
  ELSE {<<>>} \cup
       UNION {{<<t>> \o p : p \in TxPages(t, n - 1)} : t \in {u \in Times : u >= from}}

\* Client::transactions(params): what one round trip may answer, a transport
\* error or the transactions created at or after params.after, in ascending
\* created_at order, at most params.limit of them
TxResponses(params) ==
  {[ok |-> FALSE, items |-> <<>>]}
    \cup {[ok |-> TRUE, items |-> p] : p \in TxPages(params.after, params.limit)}

\* `async move { client.transactions(params).await }.boxed()`
NewTxFuture(id, params) ==
  [id |-> id, params |-> params, st |-> "new", res |-> [ok |-> FALSE, items |-> <<>>]]

----------------------------------------------------------------------------
(* TransactionStream *)

TransactionStreamFromSource(batch, vault_id, after) ==
  [batch |-> batch, init |-> FALSE, vault_id |-> vault_id, after |-> after,
   fut |-> {}, is_source |-> TRUE]

TransactionStreamFromDest(batch, vault_id, after) ==
  [batch |-> batch, init |-> FALSE, vault_id |-> vault_id, after |-> after,
   fut |-> {}, is_source |-> FALSE]

TxBuildParams_DefaultLimit(s) ==
  TransactionListBuild(0, s.after, IF s.is_source THEN "source" ELSE "destination", s.vault_id)
TxBuildParams(s) ==
  IF s.is_source
  THEN TransactionListBuild(s.batch, s.after, "source", s.vault_id)
  ELSE TransactionListBuild(s.batch, s.after, "destination", s.vault_id)

\* the values poll_next returns
TxPoll(tag, why, id, items, woke) ==
  [tag |-> tag, why |-> why, id |-> id, items |-> items, woke |-> woke]
TxNotPolled == TxPoll("NotPolled", "", 0, <<>>, FALSE)
TxPending == TxPoll("Pending", "", 0, <<>>, TRUE)
\* an entry of tout: a Ready value and the number of fetches pushed so far
TxLogged(r) ==
  [tag |-> r.tag, why |-> r.why, id |-> r.id, items |-> r.items, nreq |-> Len(treqs)]

\* poll_next returns a Ready value and pushes nothing
TxReturnReady(s, r) ==
  /\ txs' = s
  /\ tret' = r
  /\ tout' = Append(tout, TxLogged(r))
  /\ UNCHANGED treqs

\* build_params failed: the error is returned in-band
TxBuildFailed_Pending(s) ==
  /\ txs' = s
  /\ tret' = TxPending
  /\ UNCHANGED <<tout, treqs>>
TxBuildFailed(s) ==
  TxReturnReady(s, TxPoll("Err", "param", 0, <<>>, FALSE))

\* build the parameters from the cursor, push the fetch, wake, return Pending
TxStartFetch(s) ==
  LET b == TxBuildParams(s) IN
  /\ UNCHANGED tcalls
  /\ IF b.ok
     THEN /\ Len(treqs) < MaxFetches
          /\ txs' = [s EXCEPT !.fut = @ \cup {NewTxFuture(Len(treqs) + 1, b.params)}]
          /\ treqs' = Append(treqs, b.params)
          /\ tret' = TxPending
          /\ UNCHANGED tout
     ELSE TxBuildFailed(s)

\* the cursor after a non-empty Ok page:
\* `last.created_at + chrono::Duration::milliseconds(1)`
TxNextAfter_First(va) == va[1] + 1
TxNextAfter_Minus(va) == Last(va) - 1
TxNextAfter(va) == Last(va) + 1

\* self.fut.poll_next_unpin(cx) = Ready(Some(result)): a fetch that has
\* resolved, or one polled for the first time that resolves at once
TxPollReady ==
  \E f \in txs.fut :
    \E r \in (IF f.st = "done" THEN {f.res}
              ELSE IF f.st = "new" THEN TxResponses(f.params) ELSE {}) :
      LET rest == FutTake(txs.fut, f) IN
      /\ tcalls' = IF f.st = "new" THEN tcalls + 1 ELSE tcalls
      /\ IF ~r.ok
         THEN TxReturnReady([txs EXCEPT !.fut = rest],
                            TxPoll("Err", "fetch", f.id, <<>>, FALSE))
         ELSE IF r.items = <<>>
         THEN TxReturnReady([txs EXCEPT !.fut = rest],
                            TxPoll("None", "", f.id, <<>>, FALSE))
         ELSE TxReturnReady([txs EXCEPT !.fut = rest, !.after = TxNextAfter(r.items)],
                            TxPoll("Ok", "", f.id, r.items, FALSE))

\* self.fut.poll_next_unpin(cx) = Pending: no fetch has resolved; a future
\* polled for the first time calls Client::transactions
TxPollPending ==
  /\ txs.fut # {}
  /\ \A f \in txs.fut : f.st # "done"
  /\ txs' = [txs EXCEPT !.fut = {[f EXCEPT !.st = "running"] : f \in txs.fut}]
  /\ tcalls' = tcalls + Cardinality({f \in txs.fut : f.st = "new"})
  /\ tret' = TxPending
  /\ UNCHANGED <<treqs, tout>>

\* control reaches the code after the match: poll_next_unpin returned
\* Ready(None), which FuturesUnordered does exactly when it is empty
TxFallsThrough_Always(fut) == TRUE
TxFallsThrough(fut) == fut = {}

\* poll_next takes `self: Pin<&mut Self>`: it writes the fields of its own
\* instance and nothing else
TxOthers == UNCHANGED <<driven, tRejected, vstate>>

TxPollNext ==
  /\ "tx" \in driven
  /\ Len(tout) < MaxReturns
  /\ TxOthers
  /\ IF ~txs.init
     THEN TxStartFetch([txs EXCEPT !.init = TRUE])
     ELSE \/ TxPollReady
          \/ TxPollPending
          \/ /\ TxFallsThrough(txs.fut)
             /\ TxStartFetch(txs)

\* the round trip of a fetch that was started ends with some response
TxFetchResolve ==
  /\ \E f \in txs.fut :
       /\ f.st = "running"
       /\ \E r \in TxResponses(f.params) :
            txs' = [txs EXCEPT !.fut =
                      (@ \ {f}) \cup {[f EXCEPT !.st = "done", !.res = r]}]
  /\ UNCHANGED <<driven, tRejected, treqs, tout, tcalls, tret, vstate>>

----------------------------------------------------------------------------
(* PagedClient: the constructors, and the specification *)

\* the instant `Utc.with_ymd_and_hms(2022, 4, 6, 0, 1, 1)`, counted in
\* milliseconds from the origin of Times
DefaultAfter == 1

\* Option<Epoch>::unwrap_or(default_after)
UnwrapOrDefault(o) == IF o.some THEN o.v ELSE DefaultAfter

PagedClientVaults(batch_size) == VaultStreamNew(batch_size)

PagedClientTransactionsFromSource(vault_id, batch_size, after) ==
  TransactionStreamFromSource(batch_size, vault_id, UnwrapOrDefault(after))

PagedClientTransactionsFromDestination(vault_id, batch_size, after) ==
  TransactionStreamFromDest(batch_size, vault_id, UnwrapOrDefault(after))

\* the `after` arguments a caller gives
InitAfters == {NoEpoch} \cup {[some |-> TRUE, v |-> t] : t \in 0..MaxInitAfter}

InitVault ==
  /\ \E b \in Batches : vault = PagedClientVaults(b)
  /\ vRejected \in Rejections(VaultCursors)
  /\ vreqs = <<>>
  /\ vout = <<>>
  /\ vcalls = 0
  /\ vret = VaultNotPolled

InitTx ==
  /\ \E b \in Batches, id \in VaultIds, a \in InitAfters :
       \/ txs = PagedClientTransactionsFromSource(id, b, a)
       \/ txs = PagedClientTransactionsFromDestination(id, b, a)
  /\ tRejected \in Rejections(TxCursors)
  /\ treqs = <<>>
  /\ tout = <<>>
  /\ tcalls = 0
  /\ tret = TxNotPolled

\* the caller constructs one stream and drives it; the other one stands for
\* a stream that was constructed and is never advanced
Init ==
  /\ InitVault
  /\ InitTx
  /\ \/ /\ driven = {"vault"}
        /\ txs = PagedClientTransactionsFromSource(0, 1, NoEpoch)
        /\ tRejected = {}
     \/ /\ driven = {"tx"}
        /\ vault = PagedClientVaults(1)
        /\ vRejected = {}

Next ==
  \/ VaultPollNext
  \/ VaultFetchResolve
  \/ TxPollNext
  \/ TxFetchResolve

Spec == Init /\ [][Next]_vars

\* one PagedClient hands out a VaultStream and a TransactionStream (batch
\* size 1, by source vault 0 from the default instant, builders that reject
\* nothing), and the caller advances the two in any interleaving
InitTwo ==
  /\ driven = {"vault", "tx"}
  /\ InitVault /\ vault.batch = 1 /\ vRejected = {}
  /\ InitTx /\ txs = PagedClientTransactionsFromSource(0, 1, NoEpoch) /\ tRejected = {}

SpecTwo == InitTwo /\ [][Next]_vars

\* a task that asked to be woken is polled again by its executor, and the
\* round trip of a fetch that was started ends; the streams are those of
\* batch size 1 that list by source vault 0
LiveInit ==
  /\ Init
  /\ vault.batch = 1
  /\ txs.batch = 1 /\ txs.vault_id = 0 /\ txs.is_source

LiveSpec ==
  /\ LiveInit
  /\ [][Next]_vars
  /\ WF_vars(VaultPollNext /\ vret.woke)
  /\ WF_vars(VaultFetchResolve)
  /\ WF_vars(TxPollNext /\ tret.woke)
  /\ WF_vars(TxFetchResolve)

----------------------------------------------------------------------------
(* Properties *)

\* the entries of a log of Ready values that carry the result of a fetch
FetchEntries(out) == SelectSeq(out, LAMBDA e : e.id > 0)

\* C1: in every reachable state the `fut` set of a VaultStream and of a
\* TransactionStream holds 0 or 1 fetch, and a step that pushes a fetch
\* starts from a state where that set is empty.
C1_AtMostOneInFlight ==
  /\ [](Cardinality(vault.fut) <= 1 /\ Cardinality(txs.fut) <= 1)
  /\ [][(vreqs' # vreqs => vault.fut = {}) /\ (treqs' # treqs => txs.fut = {})]_vars

\* a second fetch is in flight: the first one was resolved and consumed
\* before it was pushed
C1_Witness ==
  /\ Len(vreqs) = 2
  /\ Cardinality(vault.fut) = 1
  /\ \E f \in vault.fut : f.st = "running"

\* once a log holds end-of-stream, every later entry is end-of-stream and no
\* fetch has been pushed since
ExhaustedStays(out, reqs) ==
  \A i \in 1..Len(out) :
    out[i].tag = "None" =>
      /\ \A j \in (i + 1)..Len(out) : out[j].tag = "None"
      /\ Len(reqs) = out[i].nreq

\* C2: once poll_next has returned Ready(None), every later poll_next of the
\* same instance returns Ready(None) and pushes no fetch, for both streams.
C2_ExhaustedIsTerminal ==
  /\ ExhaustedStays(vout, vreqs)
  /\ ExhaustedStays(tout, treqs)

\* after the error of a completed fetch was yielded, no element follows it
\* and no fetch has been pushed since
FetchErrorIsLast(out, reqs) ==
  \A i \in 1..Len(out) :
    (out[i].tag = "Err" /\ out[i].why = "fetch") =>
      /\ \A j \in (i + 1)..Len(out) : out[j].tag = "None"
      /\ Len(reqs) = out[i].nreq

\* C3: after poll_next has yielded the error of a completed fetch, no later
\* poll_next of that instance pushes a fetch or yields an element, for both
\* streams and on any page.
C3_FetchErrorIsTerminal ==
  /\ FetchErrorIsLast(vout, vreqs)
  /\ FetchErrorIsLast(tout, treqs)

\* a build_params error is the only such element of the log, only
\* end-of-stream follows it, and every fetch pushed was pushed and called
\* before it
BuildErrorIsLast(out, reqs, calls) ==
  \A i \in 1..Len(out) :
    (out[i].tag = "Err" /\ out[i].why = "param") =>
      /\ \A j \in (i + 1)..Len(out) : out[j].tag = "None"
      /\ Len(reqs) = out[i].nreq
      /\ calls <= out[i].nreq

\* C4: when build_params fails for the cursor of a stream, advancing the
\* stream yields exactly one error element and then end-of-stream, and the
\* page fetcher is not called, on the first advance as on a later launch.
C4_BuildErrorThenEnd ==
  /\ BuildErrorIsLast(vout, vreqs, vcalls)
  /\ BuildErrorIsLast(tout, treqs, tcalls)

\* poll_next of the VaultStream reaches build_params, and build_params fails
VaultBuildFails ==
  /\ "vault" \in driven
  /\ ~vault.init \/ (vault.fut = {} /\ vault.after.some)
  /\ ~VaultBuildParams(vault).ok

\* poll_next of the TransactionStream reaches build_params, and it fails
TxBuildFails ==
  /\ "tx" \in driven
  /\ ~txs.init \/ txs.fut = {}
  /\ ~TxBuildParams(txs).ok

\* C5: a poll_next call in which build_params returns an error returns that
\* error as Ready(Some(Err)), pushes nothing into `fut` and leaves the
\* number of page-fetcher calls unchanged, in the first-call branch and in
\* the later launch branch, for either stream.
C5_BuildErrorInBand ==
  [][/\ (VaultBuildFails /\ vstate' # vstate) =>
          /\ vret'.tag = "Err" /\ vret'.why = "param"
          /\ vout' = Append(vout, VaultLogged(vret'))
          /\ vault'.fut = vault.fut
          /\ vreqs' = vreqs
          /\ vcalls' = vcalls
     /\ (TxBuildFails /\ tstate' # tstate) =>
          /\ tret'.tag = "Err" /\ tret'.why = "param"
          /\ tout' = Append(tout, TxLogged(tret'))
          /\ txs'.fut = txs.fut
          /\ treqs' = treqs
          /\ tcalls' = tcalls]_vars

\* a later launch of a TransactionStream failed in build_params
C5_Witness ==
  /\ tret.tag = "Err" /\ tret.why = "param"
  /\ Len(treqs) = 2
  /\ tcalls = 2
  /\ txs.fut = {}

\* C6: when the k-th fetch of a VaultStream resolves to an Ok page without
\* a paging.after token, poll_next yields that page as an element, every
\* later poll_next returns end-of-stream, and no fetch beyond the k-th is
\* pushed.
C6_VaultLastPage ==
  /\ [](\A i \in 1..Len(vout) :
          (vout[i].tag = "Ok" /\ ~vout[i].after.some) =>
            /\ \A j \in (i + 1)..Len(vout) : vout[j].tag = "None"
            /\ Len(vreqs) = vout[i].id)
  /\ [][\A f \in vault.fut :
          (f.st = "done" /\ f.res.ok /\ ~f.res.after.some /\ vout' # vout) =>
            /\ vret' = VaultPoll("Ok", "", f.id, None, FALSE)
            /\ vout' = Append(vout, VaultLogged(vret'))]_vars

\* the second page had no token, and the caller advanced twice past it
C6_Witness ==
  /\ Len(vout) = 4
  /\ vout[2].tag = "Ok" /\ vout[2].id = 2 /\ ~vout[2].after.some
  /\ vout[4].tag = "None"

\* C7: when a fetch of a TransactionStream resolves to Ok with no items,
\* the same poll_next returns end-of-stream, an Ok element without items is
\* never yielded, and no fetch is pushed beyond the one that returned the
\* empty page.
C7_TxEmptyPageEnds ==
  /\ \A i \in 1..Len(tout) :
       /\ tout[i].tag = "Ok" => tout[i].items # <<>>
       /\ tout[i].tag = "None" => Len(treqs) = tout[i].id

\* C8: when a fetch of a TransactionStream resolves to a non-empty Ok page
\* whose last item has created_at = t, the next fetch the instance pushes
\* carries after = t + 1.
C8_TxCursorIsLastPlusOne ==
  \A i \in 1..Len(tout) :
    tout[i].tag = "Ok" =>
      /\ tout[i].id = Len(treqs) => txs.after = Last(tout[i].items) + 1
      /\ tout[i].id < Len(treqs) =>
           treqs[tout[i].id + 1].after = Last(tout[i].items) + 1

\* a page of two transactions created at different instants was yielded and
\* the next fetch was pushed
C8_Witness ==
  /\ Len(treqs) = 2
  /\ \E i \in 1..Len(tout) :
       /\ tout[i].tag = "Ok" /\ tout[i].id = 1
       /\ Len(tout[i].items) = 2
       /\ tout[i].items[1] < tout[i].items[2]

\* C9: the `after` cursor of a TransactionStream never decreases: no step
\* leaves it smaller than it was, and the requests pushed carry cursors in
\* non-decreasing order.
C9_TxCursorMonotone ==
  /\ [][txs'.after >= txs.after]_vars
  /\ [](\A n \in 1..(Len(treqs) - 1) : treqs[n].after <= treqs[n + 1].after)

\* two non-empty pages were yielded and the cursor moved twice
C9_Witness ==
  /\ Len(tout) = 2
  /\ tout[1].tag = "Ok" /\ tout[2].tag = "Ok"
  /\ txs.after > treqs[2].after
  /\ treqs[2].after > treqs[1].after

\* the results of the fetches are consumed one by one in the order the
\* fetches were pushed, and a fetch is pushed only when the result of the one
\* before it has been returned by poll_next
InRequestOrder(out, reqs, fut) ==
  LET got == FetchEntries(out) IN
  /\ \A k \in 1..Len(got) : got[k].id = k
  /\ Len(got) <= Len(reqs)
  /\ Len(reqs) <= Len(got) + 1
  /\ \A f \in fut : f.id = Len(reqs) /\ Len(got) = Len(reqs) - 1
  /\ fut = {} => Len(got) = Len(reqs)

\* C10: for both streams the pages are yielded in the order their fetches
\* were pushed, fetch N+1 is pushed only after the result of fetch N was
\* returned to the caller, and its cursor is computed from that result: the
\* page's paging.after for a VaultStream, the last created_at plus one for a
\* TransactionStream, the cursor of fetch N when fetch N gave no page.
C10_RequestOrder ==
  /\ InRequestOrder(vout, vreqs, vault.fut)
  /\ InRequestOrder(tout, treqs, txs.fut)
  /\ \A i \in 1..Len(vout) :
       (vout[i].id > 0 /\ vout[i].id < Len(vreqs)) =>
         vreqs[vout[i].id + 1].after =
           IF vout[i].tag = "Ok" THEN UnwrapOrEmpty(vout[i].after)
           ELSE vreqs[vout[i].id].after
  /\ \A i \in 1..Len(tout) :
       (tout[i].id > 0 /\ tout[i].id < Len(treqs)) =>
         treqs[tout[i].id + 1].after =
           IF tout[i].tag = "Ok" THEN Last(tout[i].items) + 1
           ELSE treqs[tout[i].id].after

\* a VaultStream yielded two pages and pushed its third fetch with the token
\* of the second page
C10_Witness ==
  /\ Len(vreqs) = 3
  /\ Len(vout) = 2
  /\ vout[1].tag = "Ok" /\ vout[2].tag = "Ok"
  /\ vout[1].after # vout[2].after
  /\ vreqs[3].after = vout[2].after.v

\* the entries of a log of Ready values that are elements of the stream
Elements(out) == SelectSeq(out, LAMBDA e : e.tag \in {"Ok", "Err"})

\* C11: a stream that was constructed and not advanced has issued no fetch,
\* and in every reachable state the number of fetches pushed is at most the
\* number of elements already returned to the caller plus one, for both
\* streams.
C11_NoFetchAhead ==
  /\ vret.tag = "NotPolled" => (vreqs = <<>> /\ vault.fut = {} /\ vcalls = 0)
  /\ tret.tag = "NotPolled" => (treqs = <<>> /\ txs.fut = {} /\ tcalls = 0)
  /\ Len(vreqs) <= Len(Elements(vout)) + 1
  /\ Len(treqs) <= Len(Elements(tout)) + 1

\* the Ok pages a VaultStream yielded before it pushed its n-th fetch
VaultPagesBefore(n) ==
  {i \in 1..Len(vout) : vout[i].tag = "Ok" /\ vout[i].nreq < n}

\* C12: the first fetch of a VaultStream is built with the empty token as
\* `after`, and every later fetch with the paging.after token of the most
\* recently yielded Ok page.
C12_VaultCursorIsLastToken ==
  \A n \in 1..Len(vreqs) :
    IF n = 1 THEN vreqs[n].after = ""
    ELSE /\ VaultPagesBefore(n) # {}
         /\ LET m == CHOOSE i \in VaultPagesBefore(n) :
                       \A j \in VaultPagesBefore(n) : j <= i
            IN /\ vout[m].after.some
               /\ vreqs[n].after = vout[m].after.v

\* the second fetch failed, and the third one was built with the token of
\* the first page
C12_Witness ==
  /\ Len(vreqs) = 3
  /\ Len(vout) = 2
  /\ vout[1].tag = "Ok" /\ vout[1].after = Some("B")
  /\ vout[2].tag = "Err" /\ vout[2].why = "fetch"
  /\ vreqs[3].after = "B"

\* C13: when no fetch fails and no parameters are rejected, a VaultStream
\* over a listing of k pages (pages 1..k-1 with a next token, page k
\* without) yields the k pages in order and then only end-of-stream, with
\* exactly k fetches pushed and k calls of the fetcher.
C13_VaultDrainsKPages ==
  (\A i \in 1..Len(vout) : vout[i].tag # "Err") =>
    LET pages == SelectSeq(vout, LAMBDA e : e.tag = "Ok")
        k == Len(pages)
    IN /\ \A n \in 1..k : pages[n].id = n /\ vout[n] = pages[n]
       /\ \A n \in 1..(k - 1) : pages[n].after.some
       /\ \A i \in 1..Len(vout) :
            vout[i].tag = "None" => (i > k /\ k > 0 /\ ~pages[k].after.some)
       /\ (k > 0 /\ ~pages[k].after.some) => (Len(vreqs) = k /\ vcalls = k)

\* a listing of three pages was drained and the stream ended
C13_Witness ==
  /\ Len(vout) = 4
  /\ vout[1].tag = "Ok" /\ vout[2].tag = "Ok" /\ vout[3].tag = "Ok"
  /\ vout[4].tag = "None"
  /\ Len(vreqs) = 3 /\ vcalls = 3

\* C14: every poll_next call that returns Pending has asked for a wake-up of
\* the caller's task, so when woken tasks are polled again and every fetch
\* that was started resolves, an advance that returned Pending is followed
\* by one that returns an element or end-of-stream, for both streams.
C14_PendingWakesAndProgresses ==
  /\ [](vret.tag = "Pending" => vret.woke)
  /\ [](tret.tag = "Pending" => tret.woke)
  /\ (vret.tag = "Pending") ~> (vret.tag \in {"Ok", "Err", "None"})
  /\ (tret.tag = "Pending") ~> (tret.tag \in {"Ok", "Err", "None"})

\* a TransactionStream returned Pending for its second fetch, whose round
\* trip is under way
C14_Witness ==
  /\ tret.tag = "Pending" /\ tret.woke
  /\ Len(tout) = 1 /\ tout[1].tag = "Ok"
  /\ \E f \in txs.fut : f.id = 2 /\ f.st = "running"

\* C15: poll_next never changes the `batch` of a stream, and every request
\* built over the lifetime of the instance carries limit = batch, for both
\* streams.
C15_BatchIsFixed ==
  /\ [][vault'.batch = vault.batch /\ txs'.batch = txs.batch]_vars
  /\ [](\A n \in 1..Len(vreqs) : vreqs[n].limit = vault.batch)
  /\ [](\A n \in 1..Len(treqs) : treqs[n].limit = txs.batch)

\* a TransactionStream of batch size 2 pushed three fetches
C15_Witness ==
  /\ txs.batch = 2
  /\ Len(treqs) = 3
  /\ Len(tout) = 2 /\ tout[1].tag = "Ok" /\ tout[2].tag = "Ok"

\* C17: a poll_next call that yields an error (a failed fetch or a failed
\* build_params) leaves `after` as it was before the call, for both streams;
\* a TransactionStream call that consumes an empty Ok page does too.
C17_ErrorKeepsCursor ==
  [][/\ (vout' # vout /\ vret'.tag = "Err") => vault'.after = vault.after
     /\ (tout' # tout /\ tret'.tag \in {"Err", "None"}) => txs'.after = txs.after]_vars

\* a VaultStream holding the token of its first page yielded a build_params
\* error for it
C17_Witness ==
  /\ Len(vout) = 2
  /\ vout[1].tag = "Ok" /\ vout[1].after = Some("A")
  /\ vret.tag = "Err" /\ vret.why = "param"
  /\ vault.after = Some("A")

\* C18: a freshly constructed VaultStream has no cursor and its first
\* poll_next never returns end-of-stream: it sets `init` and, when
\* build_params succeeds, pushes exactly one fetch and returns Pending; a
\* call returns end-of-stream only from a state where `init` is set, `fut`
\* is empty and the cursor is absent.
C18_FirstPollStarts ==
  /\ [](vret.tag = "NotPolled" => (~vault.init /\ ~vault.after.some))
  /\ [][/\ (vret.tag = "NotPolled" /\ vstate' # vstate) =>
             /\ vret'.tag # "None"
             /\ vault'.init
             /\ VaultBuildParams(vault).ok =>
                  /\ vret' = VaultPending
                  /\ Cardinality(vault'.fut) = 1
                  /\ Len(vreqs') = 1
                  /\ vout' = vout
        /\ (vout' # vout /\ vret'.tag = "None") =>
             (vault.init /\ vault.fut = {} /\ ~vault.after.some)]_vars

\* the first poll_next of a VaultStream pushed its fetch and returned Pending
C18_Witness ==
  /\ vret = VaultPending
  /\ vault.init /\ ~vault.after.some
  /\ Len(vreqs) = 1 /\ vout = <<>>
  /\ \E f \in vault.fut : f.id = 1 /\ f.st = "new"

\* C19: whenever the last poll_next call returned Pending, exactly one fetch
\* is in flight in that instance, for both streams.
C19_PendingHasOneInFlight ==
  /\ vret.tag = "Pending" => Cardinality(vault.fut) = 1
  /\ tret.tag = "Pending" => Cardinality(txs.fut) = 1

\* a TransactionStream returned Pending right after pushing its third fetch
C19_Witness ==
  /\ tret.tag = "Pending"
  /\ Len(treqs) = 3
  /\ \E f \in txs.fut : f.id = 3 /\ f.st = "new"

\* every fetch has at most one entry in the log and none while it is in `fut`
ConsumedOnce(out, fut) ==
  /\ \A i, j \in 1..Len(out) : (out[i].id > 0 /\ out[i].id = out[j].id) => i = j
  /\ \A f \in fut : \A i \in 1..Len(out) : out[i].id # f.id

\* C20: each resolved fetch result is consumed by exactly one poll_next call,
\* which takes it out of `fut` and returns at most one element for it (the
\* resolved page or error itself), so no page or error is yielded twice and
\* the Ok pages yielded are never more than the fetches called.
C20_ResultConsumedOnce ==
  /\ [](ConsumedOnce(vout, vault.fut) /\ ConsumedOnce(tout, txs.fut))
  /\ [](Len(SelectSeq(vout, LAMBDA e : e.tag = "Ok")) <= vcalls)
  /\ [](Len(SelectSeq(tout, LAMBDA e : e.tag = "Ok")) <= tcalls)
  /\ [][/\ (vout' # vout /\ vret'.id > 0) =>
             \E f \in vault.fut :
               /\ f.id = vret'.id
               /\ \A g \in vault'.fut : g.id # f.id
               /\ f.st = "done" =>
                    /\ f.res.ok = (vret'.tag = "Ok")
                    /\ f.res.ok => vret'.after = f.res.after
        /\ (tout' # tout /\ tret'.id > 0) =>
             \E f \in txs.fut :
               /\ f.id = tret'.id
               /\ \A g \in txs'.fut : g.id # f.id
               /\ f.st = "done" =>
                    /\ f.res.ok = (tret'.tag \in {"Ok", "None"})
                    /\ tret'.items = f.res.items]_vars

\* a VaultStream consumed two results, an Ok page and an error, and holds
\* its third fetch
C20_Witness ==
  /\ Len(vout) = 2
  /\ vout[1].tag = "Ok" /\ vout[1].id = 1
  /\ vout[2].tag = "Err" /\ vout[2].id = 2
  /\ \E f \in vault.fut : f.id = 3 /\ f.st = "done" /\ f.res.ok

\* the fetches held in a `fut` set
Slot(fut) == {f.id : f \in fut}

\* C16: two streams created from the same PagedClient and advanced in any
\* interleaving do not affect each other: the cursor, the init flag and the
\* in-flight slot of an instance change only in its own poll_next calls,
\* which leave the other instance as it is, and every step an instance
\* takes is a step it can take when driven alone.
C16_InstancesIndependent ==
  /\ [][VaultPollNext \/ VaultFetchResolve]_vstate
  /\ [][TxPollNext \/ TxFetchResolve]_tstate
  /\ [][(\/ vault'.after # vault.after
         \/ vault'.init # vault.init
         \/ Slot(vault'.fut) # Slot(vault.fut)) => (VaultPollNext /\ tstate' = tstate)]_vars
  /\ [][(\/ txs'.after # txs.after
         \/ txs'.init # txs.init
         \/ Slot(txs'.fut) # Slot(txs.fut)) => (TxPollNext /\ vstate' = vstate)]_vars

\* both streams have yielded a page and each holds its second fetch
C16_Witness ==
  /\ driven = {"vault", "tx"}
  /\ Len(vout) = 1 /\ vout[1].tag = "Ok"
  /\ Len(tout) = 1 /\ tout[1].tag = "Ok"
  /\ \E f \in vault.fut : f.id = 2 /\ f.st = "running"
  /\ \E f \in txs.fut : f.id = 2 /\ f.st = "running"

====
